---- MODULE Spec2Model ----
(***************************************************************************)
(* Model of the URL shortener: the in-memory link registry (Store), the    *)
(* HTTP handlers that call it, the logging middleware's time stamp and the *)
(* background expiry sweeper (Store.CleanupExpired).                       *)
(*                                                                         *)
(* Strings are sequences of one-character strings ("" is << >>).  Go's     *)
(* int, int64 and time.Duration are 64-bit two's complement numbers, kept  *)
(* as 8 little-endian limbs of 8 bits; a time.Time is an instant in        *)
(* nanoseconds since the start of the process, kept as 10 limbs (80 bits,  *)
(* wide enough that Time.Add never wraps, as in Go).                       *)
(***************************************************************************)
EXTENDS Integers, Sequences, FiniteSets, TLC

(* ------------------------------ bounds --------------------------------- *)
\* number of request goroutines that can be in flight together
MaxReqs == 2
\* number of Link objects ever allocated by Store.Create
MaxLinks == 2
\* the clock advances in whole minutes, from 0 to MaxTime
MaxTime == 2
\* cap of a link's click counter
MaxClicks == 1
\* number of symbols of base62 the model keeps
AlphabetSize == 2
\* length of a generated code in the model (the keyspace is scaled down
\* from 62^6 so that it can fill up)
CodeLength == 1

(* ------------------------ fixed-width integers ------------------------- *)
\* limbs of 8 bits: 64 bits for int64, 80 for an instant
Base == 2 ^ 8
I64Limbs == 64 \div 8
TimeLimbs == 80 \div 8

RECURSIVE NatLimbs(_, _)
\* the k low limbs of the natural number n
NatLimbs(n, k) ==
    IF k = 0 THEN << >> ELSE <<n % Base>> \o NatLimbs(n \div Base, k - 1)

RECURSIVE AddCarry(_, _, _, _)
\* limbs i.. of a + b + carry, truncated to Len(a) limbs
AddCarry(a, b, i, carry) ==
    IF i > Len(a) THEN << >>
    ELSE LET s == a[i] + b[i] + carry
         IN  <<s % Base>> \o AddCarry(a, b, i + 1, s \div Base)

\* a + b modulo Base^Len(a)
BigAdd(a, b) == AddCarry(a, b, 1, 0)

\* two's complement negation
BigNeg(a) ==
    BigAdd([i \in 1..Len(a) |-> (Base - 1) - a[i]], NatLimbs(1, Len(a)))

\* the limbs of the integer n (|n| < 2^31), two's complement on k limbs
IntLimbs(n, k) == IF n >= 0 THEN NatLimbs(n, k) ELSE BigNeg(NatLimbs(-n, k))

RECURSIVE ColumnSum(_, _, _, _)
\* sum of a[i] * b[col + 1 - i] for i in lo..col
ColumnSum(a, b, col, lo) ==
    IF lo > col THEN 0
    ELSE a[lo] * b[col + 1 - lo] + ColumnSum(a, b, col, lo + 1)

RECURSIVE MulCarry(_, _, _, _)
MulCarry(a, b, col, carry) ==
    IF col > Len(a) THEN << >>
    ELSE LET s == ColumnSum(a, b, col, 1) + carry
         IN  <<s % Base>> \o MulCarry(a, b, col + 1, s \div Base)

\* a * b modulo Base^Len(a): Go's wrapping multiplication
BigMul(a, b) == MulCarry(a, b, 1, 0)

\* the sign bit
IsNeg(a) == a[Len(a)] >= Base \div 2

\* sign extension of a to k limbs
SignExtend(a, k) ==
    [i \in 1..k |-> IF i <= Len(a) THEN a[i]
                    ELSE IF IsNeg(a) THEN Base - 1 ELSE 0]

RECURSIVE UnsignedLess(_, _, _)
\* a < b as unsigned numbers, comparing from limb i downwards
UnsignedLess(a, b, i) ==
    IF i = 0 THEN FALSE
    ELSE IF a[i] # b[i] THEN a[i] < b[i]
    ELSE UnsignedLess(a, b, i - 1)

\* a < b as signed numbers of the same width
BigLess(a, b) ==
    IF IsNeg(a) # IsNeg(b) THEN IsNeg(a) ELSE UnsignedLess(a, b, Len(a))


(* ------------------------------ time ----------------------------------- *)
\* time.Second and time.Minute, in nanoseconds
Second == 1000 * 1000 * 1000
Minute == BigMul(IntLimbs(60, I64Limbs), IntLimbs(Second, I64Limbs))

\* the instants of the clock's ticks (one tick is one minute), computed once
Instants ==
    [t \in 0..(MaxTime + 1) |->
        BigMul(IntLimbs(t, TimeLimbs), SignExtend(Minute, TimeLimbs))]

\* the instant of clock tick t
TimeOf(t) == Instants[t]

\* Time.Add(d)
TimeAdd(t, d) == BigAdd(t, SignExtend(d, TimeLimbs))

\* t.After(u)
After(t, u) == BigLess(u, t)

(* ----------------------------- strings --------------------------------- *)
base62 ==
    << "a", "b", "c", "d", "e", "f", "g", "h", "i", "j", "k", "l", "m",
       "n", "o", "p", "q", "r", "s", "t", "u", "v", "w", "x", "y", "z",
       "A", "B", "C", "D", "E", "F", "G", "H", "I", "J", "K", "L", "M",
       "N", "O", "P", "Q", "R", "S", "T", "U", "V", "W", "X", "Y", "Z",
       "0", "1", "2", "3", "4", "5", "6", "7", "8", "9" >>

\* the symbols rand.Intn can select in the model
Alphabet == {base62[i] : i \in 1..AlphabetSize}

RECURSIVE generateCode(_)
\* the strings generateCode(n) can return
generateCode(n) ==
    IF n = 0 THEN {<< >>}
    ELSE {<<c>> \o s : c \in Alphabet, s \in generateCode(n - 1)}

Letters == {base62[i] : i \in 1..52}
Digits == {base62[i] : i \in 53..62}

RECURSIVE getScheme(_, _)
\* net/url getScheme: the length of the scheme of rawURL (0: none), or -1
\* for the error "missing protocol scheme"
getScheme(rawURL, i) ==
    IF i > Len(rawURL) THEN 0
    ELSE IF rawURL[i] \in Letters THEN getScheme(rawURL, i + 1)
    ELSE IF rawURL[i] \in Digits \cup {"+", "-", "."}
         THEN IF i = 1 THEN 0 ELSE getScheme(rawURL, i + 1)
    ELSE IF rawURL[i] = ":" THEN IF i = 1 THEN -1 ELSE i - 1
    ELSE 0

\* url.ParseRequestURI(rawURL) returns no error
ParseRequestURI(rawURL) ==
    /\ rawURL # << >>
    /\ \/ rawURL = <<"*">>
       \/ LET n == getScheme(rawURL, 1)
              rest == IF n > 0 THEN SubSeq(rawURL, n + 2, Len(rawURL))
                      ELSE rawURL
          IN  /\ n >= 0
              /\ \/ rest # << >> /\ rest[1] = "/"
                 \/ n > 0

(* ------------------------------ inputs --------------------------------- *)
URLs ==
    { <<"h", ":", "/", "/", "x">>, <<"h", ":", "/", "/", "y">>, <<"x">>, << >> }

\* the custom codes requests ask for: none, one that generateCode can also
\* return, and one that it cannot
CustomCodes ==
    { << >>, [i \in 1..CodeLength |-> base62[1]], <<"-">> }

\* the codes of Redirect requests
Codes == generateCode(CodeLength) \cup (CustomCodes \ {<< >>})

\* validity_minutes: negative, absent (0), 1, and the smallest value whose
\* product with time.Minute exceeds the largest int64
ValidityMinutes ==
    { IntLimbs(-1, I64Limbs), IntLimbs(0, I64Limbs), IntLimbs(1, I64Limbs),
      IntLimbs(153722868, I64Limbs) }

\* the request bodies: one that is not JSON, and the decoded ShortenRequests
Bodies ==
    { [json |-> FALSE, URL |-> << >>, CustomCode |-> << >>,
       ValidityMinute |-> IntLimbs(0, I64Limbs)] }
    \cup
    { [json |-> TRUE, URL |-> u, CustomCode |-> c, ValidityMinute |-> v] :
        u \in URLs, c \in CustomCodes, v \in ValidityMinutes }


(* ------------------------------- state --------------------------------- *)
VARIABLES
    data,     \* Store.data: short code -> pointer to a Link
    heap,     \* the Link objects allocated so far; a pointer is an index
    mu,       \* Store.RWMutex: the goroutine that holds the write lock
    now,      \* the wall clock, in ticks of one minute
    req,      \* the request goroutines' local variables
    sweeper   \* the local variables of the CleanupExpired goroutine

vars == <<data, heap, mu, now, req, sweeper>>

Reqs == 1..MaxReqs
Nil == 0
Free == 0

DefaultValidityMinutes == 30

StatusOK == 200
StatusCreated == 201
StatusFound == 302
StatusBadRequest == 400
StatusNotFound == 404
StatusGone == 410

NoString == << >>
ZeroDuration == IntLimbs(0, I64Limbs)

\* a request goroutine that serves no request.  overlap and during are
\* history, read by no action: the Links that Creates with an empty custom
\* code (overlap) and with a custom code (during) inserted while this request
\* was inside Store.Create
IdleReq ==
    [ kind |-> "none", pc |-> "idle", url |-> NoString, custom |-> NoString,
      minutes |-> ZeroDuration, validity |-> ZeroDuration, code |-> NoString,
      link |-> Nil, status |-> 0, msg |-> "", overlap |-> {}, during |-> {} ]

Init ==
    /\ data = << >>
    /\ heap = << >>
    /\ mu = Free
    /\ now = 0
    /\ req = [p \in Reqs |-> IdleReq]
    /\ sweeper = [pc |-> "sleep", until |-> 1, now |-> 0]

\* the request goroutines that hold the read lock of Store.RWMutex
Readers == {q \in Reqs : req[q].pc = "rlocked"}

\* s.mu.Lock() returns: no writer and no reader holds the lock
CanLock == mu = Free /\ Readers = {}

\* s.mu.RLock() returns: no writer holds the lock
CanRLock == mu = Free

(* ------------------------------- Store --------------------------------- *)
\* a custom code that is never found in the map
CustomNeverExists(custom) == FALSE

\* _, exists := s.data[custom]
CustomExists(custom) == custom \in DOMAIN data

\* a generated code that is never found in the map
CodeNeverExists(code) == FALSE

\* _, exists := s.data[code], in the generation loop
CodeExists(code) == code \in DOMAIN data

\* a lookup that finds no code
GetNothing(d, code) == Nil

\* Store.Get on the map d: the pointer stored under code, Nil when none
Get(d, code) == IF code \in DOMAIN d THEN d[code] ELSE Nil

\* a Link whose ShortCode is set from the wrong variable
NewLinkSwapped(longURL, code, t, validity) ==
    [ LongURL |-> longURL, ShortCode |-> longURL, CreatedAt |-> TimeOf(t),
      ExpiresAt |-> TimeAdd(TimeOf(t), validity), Clicks |-> 0 ]

\* the Link that Store.Create builds
NewLink(longURL, code, t, validity) ==
    [ LongURL |-> longURL, ShortCode |-> code, CreatedAt |-> TimeOf(t),
      ExpiresAt |-> TimeAdd(TimeOf(t), validity), Clicks |-> 0 ]

\* s.data[custom] = l for a generated code: the key is the empty string
MapStoreCustom(d, code, ptr) ==
    [k \in DOMAIN d \cup {NoString} |-> IF k = NoString THEN ptr ELSE d[k]]

\* s.data[code] = l
MapStore(d, code, ptr) ==
    [k \in DOMAIN d \cup {code} |-> IF k = code THEN ptr ELSE d[k]]

\* l.Clicks++ on every Link of the map when code is a key
IncrementEvery(h, code) ==
    IF code \in DOMAIN data
    THEN [i \in 1..Len(h) |->
            IF \E k \in DOMAIN data : data[k] = i
            THEN [h[i] EXCEPT !.Clicks = @ + 1] ELSE h[i]]
    ELSE h

\* l.Clicks-- in place of l.Clicks++
Decrement(h, code) ==
    IF code \in DOMAIN data
    THEN [h EXCEPT ![data[code]].Clicks = @ - 1]
    ELSE h

\* the body of Store.Increment
Increment(h, code) ==
    IF code \in DOMAIN data
    THEN [h EXCEPT ![data[code]].Clicks = @ + 1]
    ELSE h

\* !v.ExpiresAt.After(now): a link that expires at t is removed as well
SweepExpiredAtOrBefore(t, l) == ~After(l.ExpiresAt, t)

\* the test of the sweep loop: link l is removed by a pass that read t
SweepExpired(t, l) == After(t, l.ExpiresAt)

\* a range loop that deletes every key
SweepEvery(d, h, t) == [k \in {} |-> Nil]

\* the map after the range loop of CleanupExpired
Sweep(d, h, t) ==
    LET keep == {k \in DOMAIN d : ~SweepExpired(t, h[d[k]])}
    IN  [k \in keep |-> d[k]]

\* time.Duration(m) * time.Minute for the validity_minutes of the requests,
\* computed once
Minutes ==
    [m \in ValidityMinutes \cup {IntLimbs(DefaultValidityMinutes, I64Limbs)} |->
        BigMul(m, Minute)]

\* the validity shortenHandler passes to Create
Validity(validityMinute) ==
    IF BigLess(ZeroDuration, validityMinute)
    THEN Minutes[validityMinute]
    ELSE Minutes[IntLimbs(DefaultValidityMinutes, I64Limbs)]

\* a handler without the expiry test
RedirectNeverExpired(t, l) == FALSE

\* link.ExpiresAt.After(now): the operands exchanged
RedirectExpiredSwapped(t, l) == After(l.ExpiresAt, TimeOf(t))

\* the test of redirectHandler: link l is expired at clock tick t
RedirectExpired(t, l) == After(TimeOf(t), l.ExpiresAt)

(* ------------------------------ handlers ------------------------------- *)
\* the locals of a request that has written its response
Responded(r, status, msg, link) ==
    [ IdleReq EXCEPT !.kind = r.kind, !.pc = "done", !.custom = r.custom,
                     !.code = r.code, !.link = link, !.status = status,
                     !.msg = msg, !.overlap = r.overlap, !.during = r.during ]

\* Create's insertion of a new Link under code, and the 201 response
CreateLink(p, code) ==
    /\ Len(heap) < MaxLinks
    /\ heap' = Append(heap,
                      NewLink(req[p].url, code, now, req[p].validity))
    /\ data' = MapStore(data, code, Len(heap) + 1)
    /\ req' = [q \in Reqs |->
            IF q = p
            THEN Responded(req[p], StatusCreated, "", Len(heap) + 1)
            ELSE IF req[q].pc = "lock" /\ req[p].custom = NoString
            THEN [req[q] EXCEPT !.overlap = @ \cup {Len(heap) + 1}]
            ELSE IF req[q].pc = "lock"
            THEN [req[q] EXCEPT !.during = @ \cup {Len(heap) + 1}]
            ELSE req[q]]

\* shortenHandler: decode the body, choose the validity, call Store.Create
Shorten(p, body) ==
    /\ req[p].pc = "idle"
    /\ LET r == [IdleReq EXCEPT !.kind = "shorten",
                                !.custom = body.CustomCode]
       IN  req' = [req EXCEPT ![p] =
               IF ~body.json
               THEN Responded(r, StatusBadRequest, "invalid json", Nil)
               ELSE IF body.URL = NoString
               THEN Responded(r, StatusBadRequest, "url is required", Nil)
               ELSE [r EXCEPT !.pc = "lock", !.url = body.URL,
                              !.minutes = body.ValidityMinute,
                              !.validity = Validity(body.ValidityMinute)]]
    /\ UNCHANGED <<data, heap, mu, now, sweeper>>

\* Store.Create takes the write lock and runs up to its generation loop
CreateLocked(p) ==
    /\ req[p].pc = "lock"
    /\ CanLock
    /\ IF ~ParseRequestURI(req[p].url)
       THEN /\ req' = [req EXCEPT ![p] =
                    Responded(@, StatusBadRequest, "invalid url", Nil)]
            /\ UNCHANGED <<data, heap, mu>>
       ELSE IF req[p].custom # NoString
       THEN IF CustomExists(req[p].custom)
            THEN /\ req' = [req EXCEPT ![p] =
                         Responded(@, StatusBadRequest,
                                   "custom code already exists", Nil)]
                 /\ UNCHANGED <<data, heap, mu>>
            ELSE /\ CreateLink(p, req[p].custom)
                 /\ UNCHANGED mu
       ELSE /\ mu' = p
            /\ req' = [req EXCEPT ![p].pc = "generate"]
            /\ UNCHANGED <<data, heap>>
    /\ UNCHANGED <<now, sweeper>>

\* one turn of Create's generation loop: generateCode returns code
CreateDraw(p, code) ==
    /\ req[p].pc = "generate"
    /\ mu = p
    /\ IF CodeExists(code)
       THEN UNCHANGED <<data, heap, mu, req>>
       ELSE /\ CreateLink(p, code)
            /\ mu' = Free
    /\ UNCHANGED <<now, sweeper>>

\* redirectHandler: store.Get(code), under the read lock
RedirectGet(p, code) ==
    /\ req[p].pc = "idle"
    /\ CanRLock
    /\ LET r == [IdleReq EXCEPT !.kind = "redirect", !.code = code]
       IN  req' = [req EXCEPT ![p] =
               IF Get(data, code) = Nil
               THEN Responded(r, StatusNotFound, "short link not found", Nil)
               ELSE [r EXCEPT !.pc = "check", !.link = Get(data, code)]]
    /\ UNCHANGED <<data, heap, mu, now, sweeper>>

\* the expiry test of redirectHandler
RedirectCheck(p) ==
    /\ req[p].pc = "check"
    /\ req' = [req EXCEPT ![p] =
            IF RedirectExpired(now, heap[req[p].link])
            THEN Responded(@, StatusGone, "short link expired", req[p].link)
            ELSE [@ EXCEPT !.pc = "increment"]]
    /\ UNCHANGED <<data, heap, mu, now, sweeper>>

\* store.Increment(code), under the write lock, and the 302 response
RedirectIncrement(p) ==
    /\ req[p].pc = "increment"
    /\ CanLock
    /\ req[p].code \in DOMAIN data => heap[data[req[p].code]].Clicks < MaxClicks
    /\ heap' = Increment(heap, req[p].code)
    /\ req' = [req EXCEPT ![p] = Responded(@, StatusFound, "", req[p].link)]
    /\ UNCHANGED <<data, mu, now, sweeper>>

\* store.Increment(code) takes the write lock
IncrementLock(p) ==
    /\ req[p].pc = "increment"
    /\ CanLock
    /\ req[p].code \in DOMAIN data => heap[data[req[p].code]].Clicks < MaxClicks
    /\ mu' = p
    /\ req' = [req EXCEPT ![p].pc = "incrementing"]
    /\ UNCHANGED <<data, heap, now, sweeper>>

\* store.Increment(code) writes l.Clicks and unlocks, and the 302 response
IncrementUnlock(p) ==
    /\ req[p].pc = "incrementing"
    /\ mu = p
    /\ heap' = Increment(heap, req[p].code)
    /\ mu' = Free
    /\ req' = [req EXCEPT ![p] = Responded(@, StatusFound, "", req[p].link)]
    /\ UNCHANGED <<data, now, sweeper>>

\* statsHandler: store.Get(code) takes the read lock
StatsRLock(p, code) ==
    /\ req[p].pc = "idle"
    /\ CanRLock
    /\ req' = [req EXCEPT ![p] =
            [IdleReq EXCEPT !.kind = "stats", !.pc = "rlocked", !.code = code]]
    /\ UNCHANGED <<data, heap, mu, now, sweeper>>

\* statsHandler: store.Get(code) reads the map and unlocks; 404 when absent
StatsGet(p) ==
    /\ req[p].pc = "rlocked"
    /\ req' = [req EXCEPT ![p] =
            IF Get(data, req[p].code) = Nil
            THEN Responded(@, StatusNotFound, "short link not found", Nil)
            ELSE [@ EXCEPT !.pc = "encode", !.link = Get(data, req[p].code)]]
    /\ UNCHANGED <<data, heap, mu, now, sweeper>>

\* statsHandler: writeJSON encodes *link, reading its fields, and answers 200
StatsEncode(p) ==
    /\ req[p].pc = "encode"
    /\ req' = [req EXCEPT ![p] = Responded(@, StatusOK, "", req[p].link)]
    /\ UNCHANGED <<data, heap, mu, now, sweeper>>

\* the handler returns, LoggingMiddleware logs, the goroutine ends
Finish(p) ==
    /\ req[p].pc = "done"
    /\ req' = [req EXCEPT ![p] = IdleReq]
    /\ UNCHANGED <<data, heap, mu, now, sweeper>>

(* ------------------------------ sweeper -------------------------------- *)
\* time.Sleep(1 * time.Minute) returns and the pass reads the clock
SweepWake ==
    /\ sweeper.pc = "sleep"
    /\ now >= sweeper.until
    /\ sweeper' = [sweeper EXCEPT !.pc = "sweep", !.now = now]
    /\ UNCHANGED <<data, heap, mu, now, req>>

\* one pass of CleanupExpired over the map, under the write lock
SweepPass ==
    /\ sweeper.pc = "sweep"
    /\ CanLock
    /\ data' = Sweep(data, heap, TimeOf(sweeper.now))
    /\ sweeper' = [pc |-> "sleep", until |-> now + 1, now |-> 0]
    /\ UNCHANGED <<heap, mu, now, req>>

\* a minute passes
Tick ==
    /\ now < MaxTime
    /\ now' = now + 1
    /\ UNCHANGED <<data, heap, mu, req, sweeper>>

\* the steps of the request goroutines R, with request bodies B
Next(R, B) ==
    \/ \E p \in R, body \in B : Shorten(p, body)
    \/ \E p \in R : CreateLocked(p)
    \/ \E p \in R, code \in generateCode(CodeLength) : CreateDraw(p, code)
    \/ \E p \in R, code \in Codes : RedirectGet(p, code)
    \/ \E p \in R : RedirectCheck(p)
    \/ \E p \in R : RedirectIncrement(p)
    \/ \E p \in R : Finish(p)
    \/ SweepWake
    \/ SweepPass
    \/ Tick

\* the bodies of the requests that run concurrently
ConcurrentBodies ==
    {b \in Bodies : /\ b.URL = <<"h", ":", "/", "/", "x">>
                    /\ b.CustomCode # <<"-">>
                    /\ BigLess(ZeroDuration, b.ValidityMinute)}

\* MaxReqs concurrent requests
Spec == Init /\ [][Next(Reqs, ConcurrentBodies)]_vars

\* one request at a time, every body
SpecSeq == Init /\ [][Next({1}, Bodies)]_vars

\* the steps with the Stats handler, and with Store.Increment in two steps:
\* the write lock taken, then the write and the unlock
NextRW(R, B) ==
    \/ \E p \in R, body \in B : Shorten(p, body)
    \/ \E p \in R : CreateLocked(p)
    \/ \E p \in R, code \in generateCode(CodeLength) : CreateDraw(p, code)
    \/ \E p \in R, code \in Codes : RedirectGet(p, code)
    \/ \E p \in R : RedirectCheck(p)
    \/ \E p \in R : IncrementLock(p)
    \/ \E p \in R : IncrementUnlock(p)
    \/ \E p \in R, code \in Codes : StatsRLock(p, code)
    \/ \E p \in R : StatsGet(p)
    \/ \E p \in R : StatsEncode(p)
    \/ \E p \in R : Finish(p)
    \/ SweepWake
    \/ SweepPass
    \/ Tick

\* the bodies of the requests that run next to Stats requests
StatsBodies ==
    {b \in ConcurrentBodies : b.ValidityMinute = IntLimbs(1, I64Limbs)}

\* MaxReqs concurrent requests, Stats among them
SpecRW == Init /\ [][NextRW(Reqs, StatsBodies)]_vars

\* Create can be admitted: it finds room for its Link, or it finds every
\* code of the keyspace taken and never asks for room
CreateAdmitted ==
    \/ Len(heap) < MaxLinks
    \/ generateCode(CodeLength) \subseteq DOMAIN data

\* the steps of Next, a Create entering only when CreateAdmitted
NextLive(R, B) ==
    \/ \E p \in R, body \in B : Shorten(p, body)
    \/ \E p \in R : CreateAdmitted /\ CreateLocked(p)
    \/ \E p \in R, code \in generateCode(CodeLength) : CreateDraw(p, code)
    \/ \E p \in R, code \in Codes : RedirectGet(p, code)
    \/ \E p \in R : RedirectCheck(p)
    \/ \E p \in R : RedirectIncrement(p)
    \/ \E p \in R : Finish(p)
    \/ SweepWake
    \/ SweepPass
    \/ Tick

\* the scheduler runs every goroutine that can take a step, the clock
\* advances, rand.Intn does not avoid a free code for ever, and the sweeper
\* gets the lock it waits for when the lock is free
Fairness ==
    /\ WF_vars(Tick)
    /\ WF_vars(SweepWake)
    /\ WF_vars(SweepPass)
    /\ \A p \in Reqs :
          /\ WF_vars(CreateAdmitted /\ CreateLocked(p))
          /\ WF_vars(\E code \in generateCode(CodeLength) : CreateDraw(p, code))
          /\ WF_vars(RedirectCheck(p))
          /\ WF_vars(RedirectIncrement(p))
          /\ WF_vars(Finish(p))

\* MaxReqs concurrent requests under a fair scheduler
SpecLive == Init /\ [][NextLive(Reqs, StatsBodies)]_vars /\ Fairness

(* ------------------------------ properties ----------------------------- *)
\* the pointers held by the map d
LiveIn(d) == {d[k] : k \in DOMAIN d}
Live == LiveIn(data)

\* the pointers of the Links ever created under code
LinksOf(code) == {i \in 1..Len(heap) : heap[i].ShortCode = code}

\* a Link whose expiry lies after its creation
WellFormed(l) == After(l.ExpiresAt, l.CreatedAt)

\* request p is a Shorten that has answered 201 with a generated code
Generated201(p) ==
    /\ req[p].kind = "shorten"
    /\ req[p].pc = "done"
    /\ req[p].status = StatusCreated
    /\ req[p].custom = NoString

\* C1: every Redirect that answers 302 raises by exactly 1 the clicks of the
\* link it looked up and redirects to, in every interleaving.
C1_RedirectCountsClick ==
    [][\A p \in Reqs :
        (req[p].pc = "increment" /\ req'[p].pc = "done")
        => heap'[req[p].link].Clicks = heap[req[p].link].Clicks + 1]_vars

\* C2 as stated: a Redirect for a code whose link is past its expiresAt (a
\* link created with expiresAt after createdAt) answers nothing but Gone.
C2_ExpiredAnswersGone ==
    [][\A p \in Reqs :
        ( /\ req[p].pc = "idle"
          /\ req'[p].kind = "redirect"
          /\ LinksOf(req'[p].code) # {}
          /\ \A i \in LinksOf(req'[p].code) :
                WellFormed(heap[i]) /\ After(TimeOf(now), heap[i].ExpiresAt) )
        => ~(req'[p].pc = "done" /\ req'[p].status # StatusGone)]_vars

\* C2 amended: a Redirect whose lookup finds a record answers Gone, and
\* never a redirect, exactly when the record is past its expiresAt at the
\* handler's test; a Redirect for a code that is no key of the registry (its
\* expired link swept) answers NotFound.
C2_ExpiredNeverRedirects ==
    [][\A p \in Reqs :
        /\ (req[p].pc = "check" /\ req'[p].pc # "check")
           => IF After(TimeOf(now), heap[req[p].link].ExpiresAt)
              THEN req'[p].pc = "done" /\ req'[p].status = StatusGone
              ELSE req'[p].pc = "increment"
        /\ (req[p].pc = "idle" /\ req'[p].kind = "redirect")
           => IF req'[p].code \in DOMAIN data
              THEN req'[p].pc = "check" /\ req'[p].link = data[req'[p].code]
              ELSE req'[p].pc = "done" /\ req'[p].status = StatusNotFound]_vars

\* C2 witness: a Redirect has answered Gone for a record past its expiry
C2_Witness ==
    \E p \in Reqs :
        /\ req[p].kind = "redirect"
        /\ req[p].pc = "done"
        /\ req[p].status = StatusGone
        /\ After(TimeOf(now), heap[req[p].link].ExpiresAt)

\* Store.Create takes the lock for request p in this step
CreateRuns(p) == req[p].pc = "lock" /\ req'[p].pc # "lock"

\* C3 as stated: Create with a custom code that is a key of the registry
\* fails with "custom code already exists" and status 400, for every URL.
C3_ExistingCustomConflicts ==
    [][\A p \in Reqs :
        (CreateRuns(p) /\ req[p].custom # NoString /\ req[p].custom \in DOMAIN data)
        => /\ req'[p].pc = "done"
           /\ req'[p].status = StatusBadRequest
           /\ req'[p].msg = "custom code already exists"]_vars

\* C3 amended: Create with a custom code that is a key of the registry
\* fails, the handler answers 400 and the registry is unchanged; the error
\* is "custom code already exists" when the URL is valid and "invalid url"
\* when it is not.
C3_ExistingCustomRejected ==
    [][\A p \in Reqs :
        (CreateRuns(p) /\ req[p].custom # NoString /\ req[p].custom \in DOMAIN data)
        => /\ req'[p].pc = "done"
           /\ req'[p].status = StatusBadRequest
           /\ req'[p].msg = IF ParseRequestURI(req[p].url)
                            THEN "custom code already exists"
                            ELSE "invalid url"
           /\ req'[p].link = Nil
           /\ data' = data
           /\ heap' = heap]_vars

\* C3 witness: a Shorten has answered 400 for a custom code in the registry
C3_Witness ==
    \E p \in Reqs :
        /\ req[p].pc = "done"
        /\ req[p].status = StatusBadRequest
        /\ req[p].msg = "custom code already exists"
        /\ req[p].custom \in DOMAIN data

\* C4: right after a successful Create, Get with the returned code finds a
\* record whose longURL is the URL passed to Create and whose clicks is 0.
C4_CreateThenGet ==
    [][\A p \in Reqs :
        ( /\ req[p].pc \in {"lock", "generate"}
          /\ req'[p].pc = "done"
          /\ req'[p].status = StatusCreated )
        => LET l == Get(data', heap'[req'[p].link].ShortCode)
           IN  /\ l # Nil
               /\ heap'[l].LongURL = req[p].url
               /\ heap'[l].Clicks = 0]_vars

\* C4 witness: a Create has succeeded for each of two URLs, and Get with
\* the code returned last finds that call's record
C4_Witness ==
    \E p \in Reqs :
        /\ req[p].pc = "done"
        /\ req[p].status = StatusCreated
        /\ Get(data, heap[req[p].link].ShortCode) = req[p].link
        /\ heap[req[p].link].Clicks = 0
        /\ \E i \in 1..Len(heap) : heap[i].LongURL # heap[req[p].link].LongURL

\* a pass of the sweeper completes in this step
SweepCompletes == sweeper.pc = "sweep" /\ sweeper'.pc = "sleep"

C6_ConcurrentCodesDiffer ==
    \A q \in Reqs :
        Generated201(q)
        => \A i \in req[q].overlap :
              (WellFormed(heap[i]) /\ WellFormed(heap[req[q].link]))
              => heap[i].ShortCode # heap[req[q].link].ShortCode

\* C6 amended: of two overlapping Creates with an empty custom code, the
\* second returns the code of the first only when the first's record had
\* expired and the sweeper had removed it before the second was created.
C6_SameCodeOnlyAfterSweep ==
    \A q \in Reqs :
        Generated201(q)
        => \A i \in req[q].overlap :
              heap[i].ShortCode = heap[req[q].link].ShortCode
              => /\ i \notin Live
                 /\ After(heap[req[q].link].CreatedAt, heap[i].ExpiresAt)

\* C6 witness: two overlapping Creates with an empty custom code have both
\* succeeded and both records are in the registry
C6_Witness ==
    \E q \in Reqs :
        /\ Generated201(q)
        /\ req[q].link \in Live
        /\ \E i \in req[q].overlap : i \in Live

\* C7: every record of the registry is stored under its own shortCode, and
\* no two records of the registry carry the same shortCode.
C7_ShortCodeUnique ==
    /\ \A k \in DOMAIN data : heap[data[k]].ShortCode = k
    /\ \A k1, k2 \in DOMAIN data :
          k1 # k2 => /\ data[k1] # data[k2]
                     /\ heap[data[k1]].ShortCode # heap[data[k2]].ShortCode

\* C7 witness: the registry holds two records
C7_Witness == Cardinality(DOMAIN data) >= 2

\* C8: every record of the registry has expiresAt after createdAt.
C8_ExpiresAfterCreated ==
    \A k \in DOMAIN data : After(heap[data[k]].ExpiresAt, heap[data[k]].CreatedAt)

\* C9: a record's clicks is 0 when it is created, never negative, and never
\* smaller after a step than before while the record is in the registry.
C9_ClicksOnlyIncrease ==
    [][/\ \A i \in 1..Len(heap') :
             /\ heap'[i].Clicks >= 0
             /\ i > Len(heap) => heap'[i].Clicks = 0
       /\ \A i \in Live \cap LiveIn(data') :
             heap'[i].Clicks >= heap[i].Clicks]_vars

\* C9 witness: a record of the registry has been clicked
C9_Witness == \E k \in DOMAIN data : heap[data[k]].Clicks > 0

\* C10: a Create in its generation loop can leave it: some code of the
\* keyspace is no key of the registry, so that a draw ends the loop.
C10_GenerationCanEnd ==
    \A p \in Reqs :
        req[p].pc = "generate"
        => \E code \in generateCode(CodeLength) : code \notin DOMAIN data

\* request q reads the fields of Link i outside the lock: the encoding of the
\* Stats response
Reading(q, i) == req[q].pc = "encode" /\ req[q].link = i

\* request w modifies Link i under the write lock: Increment's l.Clicks++
Writing(w, i) == req[w].pc = "incrementing" /\ Get(data, req[w].code) = i

\* C11: a reader never runs concurrently with a writer: while the write lock
\* is held no goroutine holds the read lock, and no Stats handler reads the
\* fields of a record while an Increment is modifying that record.
C11_ReadersExcludeWriters ==
    /\ mu # Free => Readers = {}
    /\ \A q \in Reqs, w \in Reqs, i \in 1..Len(heap) :
          ~(Reading(q, i) /\ Writing(w, i))

\* the map itself is never read while a writer holds the lock, and two
\* readers do hold the read lock together
C11_MapReadersExcludeWriters == mu # Free => Readers = {}
C11_TwoReaders == Cardinality(Readers) >= 2

\* m minutes as an instant offset, without wrapping: exact for |m| < 2^40
ExactMinutes(m) ==
    BigMul(SignExtend(m, TimeLimbs), SignExtend(Minute, TimeLimbs))

\* the validity the claim gives to each validity_minutes, computed once
Requested ==
    [m \in ValidityMinutes |->
        IF BigLess(ZeroDuration, m) THEN ExactMinutes(m)
        ELSE ExactMinutes(IntLimbs(DefaultValidityMinutes, I64Limbs))]

\* request p's Create inserts its Link in this step
Creates(p) ==
    /\ req[p].pc \in {"lock", "generate"}
    /\ req'[p].pc = "done"
    /\ req'[p].status = StatusCreated

\* C12: a Shorten whose validity_minutes is absent, zero or negative creates
\* a link with expiresAt = createdAt + 30 minutes, and one with a positive
\* validity_minutes = m creates a link with expiresAt = createdAt + m minutes.
C12_ValidityAsRequested ==
    [][\A p \in Reqs :
        Creates(p)
        => heap'[req'[p].link].ExpiresAt =
               BigAdd(heap'[req'[p].link].CreatedAt,
                      Requested[req[p].minutes])]_vars

\* the same for the validity_minutes whose product with time.Minute fits in
\* an int64
C12_ValidityAsRequestedInRange ==
    [][\A p \in Reqs :
        (Creates(p) /\ req[p].minutes # IntLimbs(153722868, I64Limbs))
        => heap'[req'[p].link].ExpiresAt =
               BigAdd(heap'[req'[p].link].CreatedAt,
                      Requested[req[p].minutes])]_vars

\* request p, a Stats, takes a step
StatsSteps(p) ==
    /\ req'[p] # req[p]
    /\ req[p].kind = "stats" \/ req'[p].kind = "stats"

\* C13: a Stats request answers 404 exactly when its code is no key of the
\* registry at the lookup, and otherwise answers 200 with the record stored
\* under the code, expired or not; no step of a Stats request changes the
\* registry or any record.
C13_StatsReadsOnly ==
    [][\A p \in Reqs :
        /\ (req[p].pc = "rlocked" /\ req'[p].pc # "rlocked")
           => IF req[p].code \in DOMAIN data
              THEN /\ req'[p].pc = "encode"
                   /\ req'[p].link = data[req[p].code]
              ELSE /\ req'[p].pc = "done"
                   /\ req'[p].status = StatusNotFound
                   /\ req'[p].link = Nil
        /\ (req[p].pc = "encode" /\ req'[p].pc # "encode")
           => /\ req'[p].pc = "done"
              /\ req'[p].status = StatusOK
              /\ req'[p].link = req[p].link
        /\ StatsSteps(p) => data' = data /\ heap' = heap]_vars

\* C13 witness: a Stats request has answered 200 with a record that is
\* expired and still in the registry
C13_Witness ==
    \E p \in Reqs :
        /\ req[p].kind = "stats"
        /\ req[p].pc = "done"
        /\ req[p].status = StatusOK
        /\ req[p].link \in Live
        /\ RedirectExpired(now, heap[req[p].link])

\* Links l and m differ in nothing but their clicks
SameButClicks(l, m) == [l EXCEPT !.Clicks = 0] = [m EXCEPT !.Clicks = 0]

\* C14: Increment on a code that is no key of the registry leaves the map
\* and every record unchanged and the caller goes on to its 302; Increment
\* on a key raises the clicks of the record stored under it by 1 and changes
\* no other field, no other record and not the map.
C14_IncrementTouchesOneCounter ==
    [][\A p \in Reqs :
        (req[p].pc = "incrementing" /\ req'[p].pc # "incrementing")
        => /\ data' = data
           /\ Len(heap') = Len(heap)
           /\ req'[p].status = StatusFound
           /\ \A i \in 1..Len(heap) :
                 IF Get(data, req[p].code) = i
                 THEN /\ heap'[i].Clicks = heap[i].Clicks + 1
                      /\ SameButClicks(heap'[i], heap[i])
                 ELSE heap'[i] = heap[i]]_vars

\* C14 witness: an Increment has run on a code that is no key of the
\* registry, its Redirect has answered 302, and no record has a click
C14_Witness ==
    \E p \in Reqs :
        /\ req[p].kind = "redirect"
        /\ req[p].pc = "done"
        /\ req[p].status = StatusFound
        /\ req[p].code \notin DOMAIN data
        /\ \A i \in 1..Len(heap) : heap[i].Clicks = 0

\* request q asks for a custom code under which a Create inserted Link i
\* while q was inside Store.Create
SameCustomDuring(q, i) ==
    /\ req[q].custom # NoString
    /\ i \in req[q].during
    /\ heap[i].ShortCode = req[q].custom

\* C15 as stated: of the concurrent Creates that ask for the same custom
\* code exactly one succeeds: a Create never succeeds when another Create
\* inserted the same custom code while it was inside Store.Create; and no
\* successful Create replaces a record of the registry.
C15_OneCustomCreateSucceeds ==
    [][\A q \in Reqs :
        Creates(q)
        => /\ \A i \in req[q].during : ~SameCustomDuring(q, i)
           /\ \A k \in DOMAIN data :
                 k \in DOMAIN data' /\ data'[k] = data[k]]_vars

\* C15 amended: a Create that runs while the record another Create inserted
\* under the same custom code is in the registry fails with "custom code
\* already exists"; it succeeds only when the sweeper has removed that
\* record, expired by the time the sweeper read; and no successful Create
\* replaces a record of the registry.
C15_CustomConflictWhileStored ==
    [][\A q \in Reqs :
        /\ CreateRuns(q)
           => \A i \in req[q].during :
                 (SameCustomDuring(q, i) /\ i \in Live)
                 => /\ req'[q].pc = "done"
                    /\ req'[q].status = StatusBadRequest
                    /\ req'[q].msg = "custom code already exists"
                    /\ data' = data
                    /\ heap' = heap
        /\ Creates(q)
           => /\ \A i \in req[q].during :
                    SameCustomDuring(q, i)
                    => i \notin Live /\ After(TimeOf(now), heap[i].ExpiresAt)
              /\ \A k \in DOMAIN data :
                    k \in DOMAIN data' /\ data'[k] = data[k]]_vars

\* C15 witness: of two concurrent Creates with the same custom code one has
\* answered 201 and the other 400, and the record is in the registry
C15_Witness ==
    \E p \in Reqs, q \in Reqs :
        /\ req[p].pc = "done" /\ req[p].status = StatusCreated
        /\ req[q].pc = "done" /\ req[q].status = StatusBadRequest
        /\ SameCustomDuring(q, req[p].link)
        /\ req[p].link \in Live

\* Link i is in the registry past its expiry, and the sweeper sleeps with a
\* wake-up time the clock can reach
ExpiredStored(i) ==
    /\ i <= Len(heap)
    /\ i \in Live
    /\ After(TimeOf(now), heap[i].ExpiresAt)
    /\ sweeper.pc = "sleep"
    /\ sweeper.until <= MaxTime

\* C16: every record of the registry whose expiry has passed is eventually
\* removed from the registry, under a fair scheduler and an advancing clock.
C16_ExpiredEventuallySwept ==
    \A i \in 1..MaxLinks : ExpiredStored(i) ~> (i \notin Live)

\* C17: a sweep pass keeps every record that is not expired, under the same
\* key and with all its fields; a record leaves the registry, or its key gets
\* another record, only in a sweep pass and only when it is expired; and no
\* step changes a record's longURL, shortCode, createdAt or expiresAt.  So
\* Get finds a link for as long as it has not expired.
C17_OnlySweepRemoves ==
    [][/\ \A k \in DOMAIN data :
             IF After(TimeOf(now), heap[data[k]].ExpiresAt)
             THEN (k \notin DOMAIN data' \/ data'[k] # data[k])
                  => SweepCompletes
             ELSE /\ Get(data', k) = data[k]
                  /\ SameButClicks(heap'[data[k]], heap[data[k]])
       /\ SweepCompletes => heap' = heap
       /\ \A i \in 1..Len(heap) :
             i <= Len(heap') /\ SameButClicks(heap'[i], heap[i])]_vars

\* C17 witness: a sweep pass has removed an expired record and has kept a
\* record that was created no later than that expiry and is not expired
C17_Witness ==
    \E i \in Live, j \in (1..Len(heap)) \ Live :
        /\ ~After(heap[i].CreatedAt, heap[j].ExpiresAt)
        /\ ~After(TimeOf(now), heap[i].ExpiresAt)

\* request p, a Redirect, writes its response in this step
RedirectAnswers(p) ==
    /\ req[p].pc # "done"
    /\ req'[p].pc = "done"
    /\ req'[p].kind = "redirect"

\* C18: a Redirect answers 404 when its code is no key of the registry at
\* the lookup, 410 when the record found is past its expiry at the handler's
\* test, and otherwise 302 to the longURL of the record found; a Redirect
\* that answers 404 or 410 leaves the map and every record as they were.
C18_RedirectAnswers ==
    [][\A p \in Reqs :
        /\ ( /\ req[p].pc = "check"
              /\ req'[p].pc # "check"
              /\ After(TimeOf(now), heap[req[p].link].ExpiresAt) )
           => req'[p].pc = "done"
        /\ RedirectAnswers(p)
           => /\ req'[p].status \in {StatusNotFound, StatusGone, StatusFound}
              /\ req'[p].status = StatusNotFound
                 <=> (req[p].pc = "idle" /\ req'[p].code \notin DOMAIN data)
              /\ req'[p].status = StatusGone
                 <=> /\ req[p].pc = "check"
                     /\ After(TimeOf(now), heap[req[p].link].ExpiresAt)
              /\ req'[p].status = StatusFound
                 => /\ req[p].pc = "increment"
                    /\ req'[p].link = req[p].link
                    /\ heap'[req'[p].link].LongURL = heap[req[p].link].LongURL
              /\ req'[p].status # StatusFound
                 => /\ data' = data
                    /\ heap' = heap
                    /\ req'[p].link = req[p].link]_vars

\* C18 witness: a Redirect has answered 410 for a record that is still in
\* the registry, and the record has no click
C18_Witness ==
    \E p \in Reqs :
        /\ req[p].kind = "redirect"
        /\ req[p].pc = "done"
        /\ req[p].status = StatusGone
        /\ req[p].link \in Live
        /\ heap[req[p].link].Clicks = 0

\* request p, a Shorten, writes its response in this step
ShortenAnswers(p) ==
    /\ req[p].pc # "done"
    /\ req'[p].pc = "done"
    /\ req'[p].kind = "shorten"

\* C19: a Shorten answers 400 exactly when its body is malformed or has no
\* url (the handler answers before Create) or Create finds the URL invalid or
\* the custom code taken; a Shorten that answers 400 leaves the map and every
\* record as they were, and its Create has returned no link.
C19_FailedShortenChangesNothing ==
    [][\A p \in Reqs :
        ShortenAnswers(p)
        => /\ req'[p].status \in {StatusBadRequest, StatusCreated}
           /\ req'[p].status = StatusBadRequest
              <=> \/ req[p].pc = "idle"
                  \/ /\ req[p].pc = "lock"
                     /\ \/ ~ParseRequestURI(req[p].url)
                        \/ /\ req[p].custom # NoString
                           /\ req[p].custom \in DOMAIN data
           /\ req'[p].status = StatusBadRequest
              => /\ data' = data
                 /\ heap' = heap
                 /\ req'[p].link = Nil
                 /\ req'[p].msg \in {"invalid json", "url is required",
                                     "invalid url", "custom code already exists"}]_vars

\* C19 witness: a Shorten has answered 400 for an invalid URL while the
\* registry holds a record
C19_Witness ==
    \E p \in Reqs :
        /\ req[p].kind = "shorten"
        /\ req[p].pc = "done"
        /\ req[p].status = StatusBadRequest
        /\ req[p].msg = "invalid url"
        /\ DOMAIN data # {}

\* C20: the Increment of a Redirect raises the clicks of no record other
\* than the one the Redirect looked up and redirects to.
C20_ClickOnLookedUpRecord ==
    [][\A p \in Reqs :
        (req[p].pc = "increment" /\ req'[p].pc = "done")
        => \A i \in 1..Len(heap) :
              i # req[p].link => heap'[i].Clicks = heap[i].Clicks]_vars

====
